---- MODULE Spec2Model ----
(***************************************************************************)
(* Model of the load-cell ADC sampling layer: src/sensor_ads1220.c (SPI    *)
(* polled ADS1220) and src/sensor_hx71x.c (bit-banged HX711/HX717).        *)
(*                                                                         *)
(* 32-bit unsigned quantities (tick counter, rest_ticks, command           *)
(* arguments) are kept as pairs <<hi, lo>> of 16-bit halves, because the   *)
(* model checker's integers are 32-bit signed; int32_t quantities (counts) *)
(* are ordinary integers in -2^31 .. 2^31-1.                               *)
(***************************************************************************)
EXTENDS Integers, Sequences, FiniteSets, TLC

(***************************************************************************)
(* Bounds of the model                                                     *)
(***************************************************************************)
\* number of object ids handed out by the registry (allocate_oids)
MaxOids == 2
\* ARRAY_SIZE(sb.data): capacity in bytes of the bulk-report buffer
SbDataSize == 12

(***************************************************************************)
(* Program constants                                                       *)
(***************************************************************************)
BYTES_PER_SAMPLE == 4
FLAG_PENDING == 1

(***************************************************************************)
(* Fixed-width arithmetic                                                  *)
(***************************************************************************)
H16 == 2^16

\* the uint32_t with the given halves
U32(hi, lo) == <<hi, lo>>

\* conversion of a non-negative int below 2^31 to uint32_t
ToU32(n) == <<n \div H16, n % H16>>

\* uint32_t addition, modulo 2^32
u32_add(a, b) ==
    LET lo == a[2] + b[2]
        hi == a[1] + b[1] + (lo \div H16)
    IN  <<hi % H16, lo % H16>>

\* uint32_t subtraction, modulo 2^32
u32_sub(a, b) ==
    LET lo == a[2] - b[2]
        hi == a[1] - b[1] - (IF lo < 0 THEN 1 ELSE 0)
    IN  <<hi % H16, lo % H16>>

\* unsigned comparison a >= b
u32_ge(a, b) == \/ a[1] > b[1]
                \/ a[1] = b[1] /\ a[2] >= b[2]

\* a >> 1 on uint32_t
u32_shr1(a) == <<a[1] \div 2, (a[2] \div 2) + (a[1] % 2) * 32768>>

\* conversion uint32_t -> int32_t (two's complement)
u32_to_i32(a) == IF a[1] >= 32768 THEN (a[1] - H16) * H16 + a[2]
                 ELSE a[1] * H16 + a[2]

\* conversion int32_t -> uint32_t (value modulo 2^32)
i32_to_u32(i) == <<(i \div H16) % H16, i % H16>>

\* conversion to uint8_t (value modulo 256)
u32_to_u8(a) == a[2] % 256

\* bit i of a
Bit(a, i) == (a \div (2 ^ i)) % 2

\* bitwise |, ^ and & of two bytes, bit by bit
OrBit(x, y) == IF x = 1 \/ y = 1 THEN 1 ELSE 0
XorBit(x, y) == IF x # y THEN 1 ELSE 0
AndBit(x, y) == IF x = 1 /\ y = 1 THEN 1 ELSE 0

BitOr8(a, b) ==
    OrBit(Bit(a, 0), Bit(b, 0)) + 2 * OrBit(Bit(a, 1), Bit(b, 1))
    + 4 * OrBit(Bit(a, 2), Bit(b, 2)) + 8 * OrBit(Bit(a, 3), Bit(b, 3))
    + 16 * OrBit(Bit(a, 4), Bit(b, 4)) + 32 * OrBit(Bit(a, 5), Bit(b, 5))
    + 64 * OrBit(Bit(a, 6), Bit(b, 6)) + 128 * OrBit(Bit(a, 7), Bit(b, 7))

BitXor8(a, b) ==
    XorBit(Bit(a, 0), Bit(b, 0)) + 2 * XorBit(Bit(a, 1), Bit(b, 1))
    + 4 * XorBit(Bit(a, 2), Bit(b, 2)) + 8 * XorBit(Bit(a, 3), Bit(b, 3))
    + 16 * XorBit(Bit(a, 4), Bit(b, 4)) + 32 * XorBit(Bit(a, 5), Bit(b, 5))
    + 64 * XorBit(Bit(a, 6), Bit(b, 6)) + 128 * XorBit(Bit(a, 7), Bit(b, 7))

BitAnd8(a, b) ==
    AndBit(Bit(a, 0), Bit(b, 0)) + 2 * AndBit(Bit(a, 1), Bit(b, 1))
    + 4 * AndBit(Bit(a, 2), Bit(b, 2)) + 8 * AndBit(Bit(a, 3), Bit(b, 3))
    + 16 * AndBit(Bit(a, 4), Bit(b, 4)) + 32 * AndBit(Bit(a, 5), Bit(b, 5))
    + 64 * AndBit(Bit(a, 6), Bit(b, 6)) + 128 * AndBit(Bit(a, 7), Bit(b, 7))

\* the same on 16-bit halves
BitOr16(a, b) ==
    BitOr8(a % 256, b % 256) + 256 * BitOr8(a \div 256, b \div 256)
BitXor16(a, b) ==
    BitXor8(a % 256, b % 256) + 256 * BitXor8(a \div 256, b \div 256)

\* bitwise | and ^ on uint32_t
u32_or(a, b) == <<BitOr16(a[1], b[1]), BitOr16(a[2], b[2])>>
u32_xor(a, b) == <<BitXor16(a[1], b[1]), BitXor16(a[2], b[2])>>

\* bitwise operations on uint8_t (the flags byte)
u8_or(a, b) == BitOr8(a, b)
u8_and(a, b) == BitAnd8(a, b)
u8_clear(a, mask) == BitAnd8(a, 255 - mask)

Zero32 == <<0, 0>>


(***************************************************************************)
(* State                                                                   *)
(***************************************************************************)
VARIABLES
    oid_count,       \* number of object ids of the registry (allocate_oids)
    oids,            \* registry: the type each oid was allocated with
    ads1220,         \* oid -> struct ads1220_adc
    hx71x,           \* oid -> struct hx71x_adc
    wake_ads1220,    \* struct task_wake wake_ads1220
    wake_hx71x,      \* struct task_wake wake_hx71x
    task,            \* the task that is running and its foreach_oid position
    shutdown_reason, \* "" while running, else the reason given to shutdown()
    calls,           \* calls made to the collaborators by the latest handler
    probe,           \* input and results of the sign-extension computations
    bitbang,         \* the bit-banged read in progress: its position in
                     \* hx71x_read_adc, its locals, and the interrupt state
    group            \* a synchronized group of bit-banged chips

vars == <<oid_count, oids, ads1220, hx71x, wake_ads1220, wake_hx71x, task,
          shutdown_reason, calls, probe, bitbang, group>>

Oids == 0 .. (oid_count - 1)

\* one call to a collaborator: n and val are integer arguments, time a tick
\* value, data a byte sequence
Call(name, oid, n, val, time, data) ==
    [call |-> name, oid |-> oid, n |-> n, val |-> val, time |-> time,
     data |-> data]

\* the running handler: the device record it works on, the calls it made so
\* far, and the shutdown reason once it called shutdown()
Ctx(dev, cs) == [dev |-> dev, calls |-> cs, halt |-> ""]

Log(c, entry) == [c EXCEPT !.calls = Append(@, entry)]

(***************************************************************************)
(* Collaborators (sched.h, sensor_bulk.h, basecmd.h, load_cell_endstop.h)  *)
(***************************************************************************)
\* struct timer as the scheduler sees it: linked in the timer list or not
NullTimer == [scheduled |-> FALSE, waketime |-> Zero32]

\* sched_add_timer(): link the timer; `n` of the call records whether it was
\* linked already
sched_add_timer(c, oid, waketime) ==
    [c EXCEPT !.dev.timer = [scheduled |-> TRUE, waketime |-> waketime],
              !.calls = Append(@, Call("sched_add_timer", oid,
                                       IF c.dev.timer.scheduled THEN 1 ELSE 0,
                                       0, waketime, <<>>))]

\* sched_del_timer(): unlink the timer if it is linked
sched_del_timer(c, oid) ==
    [c EXCEPT !.dev.timer.scheduled = FALSE,
              !.calls = Append(@, Call("sched_del_timer", oid,
                                       IF c.dev.timer.scheduled THEN 1 ELSE 0,
                                       0, c.dev.timer.waketime, <<>>))]

\* timer_read_time(): the tick counter, an input of the handler
timer_read_time(c, oid, t) ==
    Log(c, Call("timer_read_time", oid, 0, 0, t, <<>>))

\* struct sensor_bulk after oid_alloc() zeroed it
NullBulk == [data_count |-> 0, data |-> <<>>]

\* sensor_bulk_reset(): empty the buffer
sensor_bulk_reset(c, oid) ==
    [c EXCEPT !.dev.sb = NullBulk,
              !.calls = Append(@, Call("sensor_bulk_reset", oid, 0, 0, Zero32,
                                       <<>>))]

\* sensor_bulk_report(): hand the buffered bytes to the host, empty the buffer
sensor_bulk_report(c, oid) ==
    [c EXCEPT !.dev.sb = NullBulk,
              !.calls = Append(@, Call("sensor_bulk_report", oid,
                                       c.dev.sb.data_count, 0, Zero32,
                                       c.dev.sb.data))]

\* sensor_bulk_status(): report the buffer's state to the host; the buffer is
\* only read.  n is the pending byte count, val the duration of the probe
sensor_bulk_status(c, oid, time1, delta, pending_bytes) ==
    Log(c, Call("sensor_bulk_status", oid, pending_bytes, u32_to_i32(delta),
                time1, c.dev.sb.data))

\* load_cell_endstop_report_sample(lce, counts, start_time)
load_cell_endstop_report_sample(c, oid, lce, counts, start_time) ==
    Log(c, Call("load_cell_endstop_report_sample", oid, lce, counts,
                start_time, <<>>))

\* shutdown(): does not return; the handler ends here
shutdown(c, oid, reason) ==
    [c EXCEPT !.halt = reason,
              !.calls = Append(@, Call("shutdown", oid, 0, 0, Zero32, <<>>))]

\* no bit-banged read in progress, interrupts enabled.  irq_off: interrupts
\* are disabled; level_gain1: the level of dout seen at the rising edge of
\* the first gain pulse; disables, enables, rises, falls, samples, probes: how often
\* the read in progress (or the latest one) disabled and enabled the
\* interrupts, raised and lowered the clock, shifted a data bit in and
\* probed the ready state
NoBitbang ==
    [pc |-> "idle", loop |-> "data", oid |-> 0, irq_off |-> FALSE,
     bits |-> <<>>, start_time |-> Zero32, counts |-> 0, is_ready |-> 0,
     level_gain1 |-> 1, sample_idx |-> 0, gain_idx |-> 0,
     disables |-> 0, enables |-> 0, rises |-> 0, falls |-> 0,
     samples |-> 0, probes |-> 0]

(***************************************************************************)
(* ADS1220 sensor support (sensor_ads1220.c)                               *)
(***************************************************************************)
\* struct ads1220_adc after oid_alloc() zeroed it
NullAds1220 ==
    [timer |-> NullTimer, rest_ticks |-> Zero32, flags |-> 0,
     sb |-> NullBulk, lce |-> 0]

is_flag_set(mask, flags) == u8_and(mask, flags) # 0
set_flag(mask, flags) == u8_or(flags, mask)
clear_flag(mask, flags) == u8_clear(flags, mask)

\* Helper code to reschedule the ads1220_event() timer; t is the tick counter
\* read with interrupts disabled
ads1220_reschedule_timer(c, oid, t) ==
    LET c1 == [c EXCEPT !.dev.flags = set_flag(FLAG_PENDING, @)]
        c2 == timer_read_time(c1, oid, t)
    IN  sched_add_timer(c2, oid, u32_add(t, c.dev.rest_ticks))

\* gpio_in_read(data_ready) == 0
ads1220_is_data_ready(level) == level = 0

\* the measurement stored most significant byte first
ads1220_add_sample_be(c, counts) ==
    LET u == i32_to_u32(counts)
    IN  [c EXCEPT !.dev.sb.data = @ \o <<u[1] \div 256, u[1] % 256,
                                         u[2] \div 256, u[2] % 256>>,
                  !.dev.sb.data_count = @ + BYTES_PER_SAMPLE]

\* Add a measurement to the buffer: 4 bytes, least significant first
ads1220_add_sample(c, counts) ==
    LET u == i32_to_u32(counts)
    IN  [c EXCEPT !.dev.sb.data = @ \o <<u[2] % 256, u[2] \div 256,
                                         u[1] % 256, u[1] \div 256>>,
                  !.dev.sb.data_count = @ + BYTES_PER_SAMPLE]

\* the full buffer emptied without the report to the host
ads1220_flush_samples_drop(c, oid) ==
    IF c.dev.sb.data_count + BYTES_PER_SAMPLE > SbDataSize
    THEN sensor_bulk_reset(c, oid)
    ELSE c

ads1220_flush_samples(c, oid) ==
    IF c.dev.sb.data_count + BYTES_PER_SAMPLE > SbDataSize
    THEN sensor_bulk_report(c, oid)
    ELSE c

\* (msg[0] << 16) | (msg[1] << 8) | msg[2]
ads1220_counts_original(msg) ==
    u32_to_i32(u32_or(u32_or(<<msg[1], 0>>, <<0, msg[2] * 256>>),
                      <<0, msg[3]>>))

\* the 24-bit value taken as it is, not extended
ads1220_sign_extend_none(counts_original) == counts_original

\* extend 2's complement 24 bits to 32 bits: (counts_original ^ m) - m
ads1220_sign_extend(counts_original) ==
    LET m == ToU32(2^23)
    IN  u32_to_i32(u32_sub(u32_xor(i32_to_u32(counts_original), m), m))

\* time_diff >= ads1220->rest_ticks >> 1
ads1220_read_too_long(time_diff, rest_ticks) ==
    u32_ge(time_diff, u32_shr1(rest_ticks))

\* the endstop reported to without the test for its presence
ads1220_report_endstop_always(c, oid, counts, start_time) ==
    load_cell_endstop_report_sample(c, oid, c.dev.lce, counts, start_time)

\* endstop is optional, report if enabled
ads1220_report_endstop(c, oid, counts, start_time) ==
    IF c.dev.lce # 0
    THEN load_cell_endstop_report_sample(c, oid, c.dev.lce, counts,
                                         start_time)
    ELSE c

\* ADS1220 ADC query.  in: the level of the data-ready pin, the 3 bytes the
\* SPI transfer returns, and the tick counter at its three reads
ads1220_read_adc(c, oid, in) ==
    LET c0 == Log(c, Call("ads1220_is_data_ready", oid,
                          IF ads1220_is_data_ready(in.pin) THEN 1 ELSE 0,
                          0, Zero32, <<>>))
    IN
    IF ~ads1220_is_data_ready(in.pin)
    THEN ads1220_reschedule_timer(c0, oid, in.t_rearm)
    ELSE
    LET start_time == in.t_start
        c1 == timer_read_time(c0, oid, start_time)
        c2 == Log(c1, Call("spidev_transfer", oid, 0, 0, Zero32, in.msg))
        c3 == timer_read_time(c2, oid, in.t_end)
        time_diff == u32_sub(in.t_end, start_time)
        counts_original == ads1220_counts_original(in.msg)
        counts == ads1220_sign_extend(counts_original)
        c4 == ads1220_add_sample(c3, counts)
        c5 == ads1220_report_endstop(c4, oid, counts, start_time)
        c6 == ads1220_flush_samples(c5, oid)
    IN  IF ads1220_read_too_long(time_diff, c.dev.rest_ticks)
        THEN shutdown(c3, oid, "ADS1220 read timing error, read took too long")
        ELSE IF counts = -1
        THEN shutdown(c3, oid, "ADS1220: Possible bad read")
        ELSE IF counts >= 8388608
        THEN shutdown(c3, oid, "ADS1220: Invalid Counts")
        ELSE ads1220_reschedule_timer(c6, oid, in.t_rearm)

\* what a handler leaves behind: the device record, the calls, the shutdown
Ads1220Done(c, oid) ==
    /\ ads1220' = [ads1220 EXCEPT ![oid] = c.dev]
    /\ calls' = c.calls
    /\ shutdown_reason' = c.halt

Running == shutdown_reason = ""
Idle == task.name = "none"

\* Create an ads1220 sensor
command_config_ads1220(oid) ==
    /\ Running /\ Idle
    /\ oids[oid] = "none"
    /\ oids' = [oids EXCEPT ![oid] = "ads1220"]
    /\ ads1220' = [ads1220 EXCEPT ![oid] = NullAds1220]
    /\ calls' = <<Call("command_config_ads1220", oid, 0, 0, Zero32, <<>>)>>
    /\ UNCHANGED <<oid_count, hx71x, wake_ads1220, wake_hx71x, task,
                   shutdown_reason, probe,
                   bitbang, group>>

command_attach_endstop_ads1220(oid, lce) ==
    /\ Running /\ Idle
    /\ oids[oid] = "ads1220"
    /\ ads1220' = [ads1220 EXCEPT ![oid].lce = lce]
    /\ calls' = <<Call("command_attach_endstop_ads1220", oid, lce, 0, Zero32,
                       <<>>)>>
    /\ UNCHANGED <<oid_count, oids, hx71x, wake_ads1220, wake_hx71x, task,
                   shutdown_reason, probe,
                   bitbang, group>>

\* flags = 0; rest_ticks = args[1]
ads1220_set_rest_ticks(c, rest_ticks) ==
    [c EXCEPT !.dev.flags = 0, !.dev.rest_ticks = rest_ticks]

\* start/stop capturing ADC data; t is the tick counter read when re-arming
command_query_ads1220(oid, rest_ticks, t) ==
    /\ Running /\ Idle
    /\ oids[oid] = "ads1220"
    /\ LET c0 == Ctx(ads1220[oid],
                     <<Call("command_query_ads1220", oid, 0, 0, rest_ticks,
                            <<>>)>>)
           c1 == sched_del_timer(c0, oid)
           c2 == ads1220_set_rest_ticks(c1, rest_ticks)
           c3 == sensor_bulk_reset(c2, oid)
       IN  IF rest_ticks = Zero32
           THEN Ads1220Done(c2, oid)
           ELSE Ads1220Done(ads1220_reschedule_timer(c3, oid, t), oid)
    /\ UNCHANGED <<oid_count, oids, hx71x, wake_ads1220, wake_hx71x, task,
                   probe,
                   bitbang, group>>

\* the status query: in holds the level of the data-ready pin and the tick
\* counter at its two reads
command_query_ads1220_status(oid, in) ==
    /\ Running /\ Idle
    /\ oids[oid] = "ads1220"
    /\ LET c0 == Ctx(ads1220[oid],
                     <<Call("command_query_ads1220_status", oid, 0, 0, Zero32,
                            <<>>)>>)
           c1 == timer_read_time(c0, oid, in.t_start)
           is_ready == IF ads1220_is_data_ready(in.pin) THEN 1 ELSE 0
           c2 == Log(c1, Call("ads1220_is_data_ready", oid, is_ready, 0,
                              Zero32, <<>>))
           pending_bytes == is_ready * BYTES_PER_SAMPLE
           c3 == timer_read_time(c2, oid, in.t_end)
       IN  Ads1220Done(sensor_bulk_status(c3, oid, in.t_start,
                                          u32_sub(in.t_end, in.t_start),
                                          pending_bytes), oid)
    /\ UNCHANGED <<oid_count, oids, hx71x, wake_ads1220, wake_hx71x, task,
                   probe,
                   bitbang, group>>

\* Event handler that wakes wake_ads1220() periodically; returns SF_DONE, so
\* the scheduler drops the timer
ads1220_event(oid) ==
    /\ Running /\ ~bitbang.irq_off
    /\ oids[oid] = "ads1220"
    /\ ads1220[oid].timer.scheduled
    /\ ads1220' = [ads1220 EXCEPT ![oid].flags = set_flag(FLAG_PENDING, @),
                                  ![oid].timer.scheduled = FALSE]
    /\ wake_ads1220' = TRUE
    /\ calls' = <<Call("ads1220_event", oid, 0, 0, Zero32, <<>>),
                  Call("sched_wake_task", oid, 0, 0, Zero32, <<>>)>>
    /\ UNCHANGED <<oid_count, oids, hx71x, wake_hx71x, task, shutdown_reason,
                   probe,
                   bitbang, group>>

\* Background task that performs measurements: sched_check_wake() and the
\* start of the foreach_oid loop
ads1220_capture_task ==
    /\ Running /\ Idle
    /\ wake_ads1220
    /\ wake_ads1220' = FALSE
    /\ task' = [name |-> "ads1220", oid |-> 0]
    /\ calls' = <<Call("ads1220_capture_task", 0, 0, 0, Zero32, <<>>)>>
    /\ UNCHANGED <<oid_count, oids, ads1220, hx71x, wake_hx71x,
                   shutdown_reason, probe,
                   bitbang, group>>

\* the position of the task after the loop body for task.oid
TaskNext ==
    IF task.oid + 1 < oid_count
    THEN [task EXCEPT !.oid = @ + 1]
    ELSE [name |-> "none", oid |-> 0]

\* one iteration of the foreach_oid loop of ads1220_capture_task
ads1220_capture_task_oid(in) ==
    /\ Running
    /\ task.name = "ads1220"
    /\ LET oid == task.oid
       IN  IF oids[oid] = "ads1220"
              /\ u8_and(ads1220[oid].flags, FLAG_PENDING) # 0
           THEN Ads1220Done(
                    ads1220_read_adc(
                        Ctx(ads1220[oid],
                            <<Call("ads1220_read_adc", oid, 0, 0, Zero32,
                                   <<>>)>>),
                        oid, in),
                    oid)
           ELSE /\ calls' = <<>>
                /\ UNCHANGED <<ads1220, shutdown_reason>>
    /\ task' = TaskNext
    /\ UNCHANGED <<oid_count, oids, hx71x, wake_ads1220, wake_hx71x, probe,
                   bitbang, group>>

(***************************************************************************)
(* HX711 and HX717 sensor support (sensor_hx71x.c)                         *)
(***************************************************************************)
\* struct hx71x_adc after oid_alloc() zeroed it
NullHx71x ==
    [gain_channel |-> 0, pending_flag |-> 0, rest_ticks |-> Zero32,
     timer |-> NullTimer, sclk |-> 0, sb |-> NullBulk, lce |-> 0]

\* the timer re-armed for the tick counter as read, the period left out
hx71x_reschedule_timer_now(c, oid, t) ==
    sched_add_timer(timer_read_time(c, oid, t), oid, t)

\* Helper code to reschedule the hx71x_event() timer; t is the tick counter
\* read with interrupts disabled
hx71x_reschedule_timer(c, oid, t) ==
    sched_add_timer(timer_read_time(c, oid, t), oid,
                    u32_add(t, c.dev.rest_ticks))

\* if the dout pin is high the sample is not ready: !gpio_in_read(dout)
hx71x_is_data_ready(level) == IF level = 0 THEN 1 ELSE 0

\* Add a measurement to the buffer: 4 bytes, least significant first
hx71x_add_sample(c, counts) ==
    LET u == i32_to_u32(counts)
    IN  [c EXCEPT !.dev.sb.data = @ \o <<u[2] % 256, u[2] \div 256,
                                         u[1] % 256, u[1] \div 256>>,
                  !.dev.sb.data_count = @ + BYTES_PER_SAMPLE]

\* flush only once the buffer is over its capacity
hx71x_flush_samples_late(c, oid) ==
    IF c.dev.sb.data_count > SbDataSize
    THEN sensor_bulk_report(c, oid)
    ELSE c

hx71x_flush_samples(c, oid) ==
    IF c.dev.sb.data_count + BYTES_PER_SAMPLE > SbDataSize
    THEN sensor_bulk_report(c, oid)
    ELSE c

\* the data pulses: counts after sample_idx iterations of
\* counts = (counts << 1) | gpio_in_read(dout), bits being the levels (0 or
\* 1) sampled after each falling clock edge, in order; the shifted value has
\* bit 0 clear, so the | sets it to the level read
RECURSIVE hx71x_shift_in(_, _)
hx71x_shift_in(bits, sample_idx) ==
    IF sample_idx = 0 THEN 0
    ELSE hx71x_shift_in(bits, sample_idx - 1) * 2 + bits[sample_idx]

\* the sign bit pattern itself left unextended
hx71x_sign_extend_above(counts) ==
    IF counts > 8388608
    THEN u32_to_i32(u32_or(i32_to_u32(counts), <<65280, 0>>))
    ELSE counts

\* extend 2's complement 24 bits to 32bits
hx71x_sign_extend(counts) ==
    IF counts >= 8388608
    THEN u32_to_i32(u32_or(i32_to_u32(counts), <<65280, 0>>))
    ELSE counts

\* the range check on the extended value
hx71x_out_of_range(counts) == counts < -8388607 \/ counts > 8388607

\* the budget taken as the whole period
hx71x_read_too_long_whole(start_time, now, rest_ticks) ==
    u32_ge(u32_sub(now, start_time), rest_ticks)

\* (hx71x_get_time() - start_time) >= (hx71x->rest_ticks >> 1)
hx71x_read_too_long(start_time, now, rest_ticks) ==
    u32_ge(u32_sub(now, start_time), u32_shr1(rest_ticks))

\* endstop is optional, report if enabled
hx71x_report_endstop(c, oid, counts, start_time) ==
    IF c.dev.lce # 0
    THEN load_cell_endstop_report_sample(c, oid, c.dev.lce, counts,
                                         start_time)
    ELSE c

\* hx71x_read_adc once the pulses are out.  c: the handler after its ready
\* check and its read of the start time; raw: the accumulator; pulses: the
\* clock pulses driven; is_ready: the ready state sampled during the first
\* gain pulse; in.t_end, in.t_rearm: the tick counter at the timing check
\* and at re-arm
hx71x_read_finish(c, oid, start_time, raw, pulses, is_ready, in) ==
    LET t_end == in.t_end
        t_rearm == in.t_rearm
        c2 == Log(Log(c, Call("hx71x_clock_pulses", oid, pulses, raw, Zero32,
                              <<>>)),
                  Call("hx71x_is_data_ready", oid, is_ready, 0, Zero32, <<>>))
        c3 == timer_read_time(c2, oid, t_end)
        counts == hx71x_sign_extend(raw)
        c4 == hx71x_add_sample(c3, counts)
        c5 == hx71x_report_endstop(c4, oid, counts, start_time)
        c6 == hx71x_flush_samples(c5, oid)
        c7 == [c6 EXCEPT !.dev.pending_flag = 0]
    IN  IF is_ready # 0
        THEN shutdown(c2, oid, "HX71x Sensor reporting data ready after read")
        ELSE IF hx71x_read_too_long(start_time, t_end, c.dev.rest_ticks)
        THEN shutdown(c3, oid, "HX71x Read took too long")
        ELSE IF hx71x_out_of_range(counts)
        THEN shutdown(c3, oid, "HX71x Counts value out of range")
        ELSE hx71x_reschedule_timer(c7, oid, t_rearm)

\* hx71x ADC query.  in: the level of dout at entry, the 24 levels sampled
\* during the data pulses, the level sampled during the first gain pulse,
\* and the tick counter at start, at the timing check and at re-arm
hx71x_read_adc(c, oid, in) ==
    LET c0 == Log(c, Call("hx71x_is_data_ready", oid,
                          hx71x_is_data_ready(in.pin), 0, Zero32, <<>>))
    IN
    IF hx71x_is_data_ready(in.pin) = 0
    THEN hx71x_reschedule_timer(c0, oid, in.t_rearm)
    ELSE hx71x_read_finish(timer_read_time(c0, oid, in.t_start), oid,
                           in.t_start, hx71x_shift_in(in.bits, 24),
                           24 + c.dev.gain_channel,
                           hx71x_is_data_ready(in.pin_gain), in)

Hx71xDone(c, oid) ==
    /\ hx71x' = [hx71x EXCEPT ![oid] = c.dev]
    /\ calls' = c.calls
    /\ shutdown_reason' = c.halt

\* Create a hx71x sensor; arg is args[1], a 32-bit command argument
command_config_hx71x(oid, arg) ==
    /\ Running /\ Idle
    /\ oids[oid] = "none"
    /\ oids' = [oids EXCEPT ![oid] = "hx71x"]
    /\ LET c0 == Ctx(NullHx71x,
                     <<Call("command_config_hx71x", oid, 0, 0, arg, <<>>)>>)
           gain_channel == u32_to_u8(arg)
       IN  IF gain_channel < 1 \/ gain_channel > 4
           THEN Hx71xDone(shutdown(c0, oid,
                                   "HX71x gain/channel out of range 1-4"), oid)
           ELSE Hx71xDone([c0 EXCEPT !.dev.gain_channel = gain_channel], oid)
    /\ UNCHANGED <<oid_count, ads1220, wake_ads1220, wake_hx71x, task, probe,
                   bitbang, group>>

command_attach_endstop_hx71x(oid, lce) ==
    /\ Running /\ Idle
    /\ oids[oid] = "hx71x"
    /\ hx71x' = [hx71x EXCEPT ![oid].lce = lce]
    /\ calls' = <<Call("command_attach_endstop_hx71x", oid, lce, 0, Zero32,
                       <<>>)>>
    /\ UNCHANGED <<oid_count, oids, ads1220, wake_ads1220, wake_hx71x, task,
                   shutdown_reason, probe,
                   bitbang, group>>

\* the period recorded, the pending flag left as it was
hx71x_set_rest_ticks_only(c, rest_ticks) ==
    [c EXCEPT !.dev.rest_ticks = rest_ticks]

\* the query command dropping the endstop link as well
hx71x_set_rest_ticks_unlink(c, rest_ticks) ==
    [c EXCEPT !.dev.pending_flag = 0, !.dev.rest_ticks = rest_ticks,
              !.dev.lce = 0]

\* pending_flag = 0; rest_ticks = args[1]
hx71x_set_rest_ticks(c, rest_ticks) ==
    [c EXCEPT !.dev.pending_flag = 0, !.dev.rest_ticks = rest_ticks]

\* start/stop capturing ADC data; t is the tick counter read when re-arming
command_query_hx71x(oid, rest_ticks, t) ==
    /\ Running /\ Idle
    /\ oids[oid] = "hx71x"
    /\ LET c0 == Ctx(hx71x[oid],
                     <<Call("command_query_hx71x", oid, 0, 0, rest_ticks,
                            <<>>)>>)
           c1 == sched_del_timer(c0, oid)
           c2 == hx71x_set_rest_ticks(c1, rest_ticks)
           c3 == sensor_bulk_reset(c2, oid)
       IN  IF rest_ticks = Zero32
           THEN Hx71xDone(c2, oid)
           ELSE Hx71xDone(hx71x_reschedule_timer(c3, oid, t), oid)
    /\ UNCHANGED <<oid_count, oids, ads1220, wake_ads1220, wake_hx71x, task,
                   probe,
                   bitbang, group>>

\* the status query with the pending flag cleared on the way
command_query_hx71x_status_clearing(oid, in) ==
    /\ Running /\ Idle
    /\ oids[oid] = "hx71x"
    /\ LET c0 == Ctx([hx71x[oid] EXCEPT !.pending_flag = 0],
                     <<Call("command_query_hx71x_status", oid, 0, 0, Zero32,
                            <<>>)>>)
       IN  Hx71xDone(sensor_bulk_status(c0, oid, in.t_start,
                                        u32_sub(in.t_end, in.t_start), 0),
                     oid)
    /\ UNCHANGED <<oid_count, oids, ads1220, wake_ads1220, wake_hx71x, task,
                   probe,
                   bitbang, group>>

\* the status query: in holds the level of dout and the tick counter at its
\* two reads
command_query_hx71x_status(oid, in) ==
    /\ Running /\ Idle
    /\ oids[oid] = "hx71x"
    /\ LET c0 == Ctx(hx71x[oid],
                     <<Call("command_query_hx71x_status", oid, 0, 0, Zero32,
                            <<>>)>>)
           c1 == timer_read_time(c0, oid, in.t_start)
           is_ready == hx71x_is_data_ready(in.pin)
           c2 == Log(c1, Call("hx71x_is_data_ready", oid, is_ready, 0,
                              Zero32, <<>>))
           pending_bytes == is_ready * BYTES_PER_SAMPLE
           c3 == timer_read_time(c2, oid, in.t_end)
       IN  Hx71xDone(sensor_bulk_status(c3, oid, in.t_start,
                                        u32_sub(in.t_end, in.t_start),
                                        pending_bytes), oid)
    /\ UNCHANGED <<oid_count, oids, ads1220, wake_ads1220, wake_hx71x, task,
                   probe,
                   bitbang, group>>

\* the event handler without the wake of the capture task
hx71x_event_no_wake(oid) ==
    /\ Running /\ ~bitbang.irq_off
    /\ oids[oid] = "hx71x"
    /\ hx71x[oid].timer.scheduled
    /\ hx71x' = [hx71x EXCEPT ![oid].pending_flag = 1,
                              ![oid].timer.scheduled = FALSE]
    /\ calls' = <<Call("hx71x_event", oid, 0, 0, Zero32, <<>>)>>
    /\ UNCHANGED <<oid_count, oids, ads1220, wake_ads1220, wake_hx71x, task,
                   shutdown_reason, probe,
                   bitbang, group>>

\* Event handler that wakes wake_hx71x() periodically; returns SF_DONE, so
\* the scheduler drops the timer
hx71x_event(oid) ==
    /\ Running /\ ~bitbang.irq_off
    /\ oids[oid] = "hx71x"
    /\ hx71x[oid].timer.scheduled
    /\ hx71x' = [hx71x EXCEPT ![oid].pending_flag = 1,
                              ![oid].timer.scheduled = FALSE]
    /\ wake_hx71x' = TRUE
    /\ calls' = <<Call("hx71x_event", oid, 0, 0, Zero32, <<>>),
                  Call("sched_wake_task", oid, 0, 0, Zero32, <<>>)>>
    /\ UNCHANGED <<oid_count, oids, ads1220, wake_ads1220, task,
                   shutdown_reason, probe,
                   bitbang, group>>

\* Background task that performs measurements: sched_check_wake() and the
\* start of the foreach_oid loop
hx71x_capture_task ==
    /\ Running /\ Idle
    /\ wake_hx71x
    /\ wake_hx71x' = FALSE
    /\ task' = [name |-> "hx71x", oid |-> 0]
    /\ calls' = <<Call("hx71x_capture_task", 0, 0, 0, Zero32, <<>>)>>
    /\ UNCHANGED <<oid_count, oids, ads1220, hx71x, wake_ads1220,
                   shutdown_reason, probe,
                   bitbang, group>>

\* one iteration of the foreach_oid loop of hx71x_capture_task
hx71x_capture_task_oid(in) ==
    /\ Running
    /\ task.name = "hx71x" /\ bitbang.pc = "idle"
    /\ LET oid == task.oid
       IN  IF oids[oid] = "hx71x" /\ hx71x[oid].pending_flag # 0
           THEN Hx71xDone(
                    hx71x_read_adc(
                        Ctx(hx71x[oid],
                            <<Call("hx71x_read_adc", oid, 0, 0, Zero32,
                                   <<>>)>>),
                        oid, in),
                    oid)
           ELSE /\ calls' = <<>>
                /\ UNCHANGED <<hx71x, shutdown_reason>>
    /\ task' = TaskNext
    /\ UNCHANGED <<oid_count, oids, ads1220, wake_ads1220, wake_hx71x, probe,
                   bitbang, group>>

(***************************************************************************)
(* hx71x_read_adc pulse by pulse: the same read, one action per statement  *)
(* of its two loops, so that interrupts can be taken where the code        *)
(* leaves them enabled                                                     *)
(***************************************************************************)
\* irq_disable() and irq_enable() of a read in progress
irq_disable_skipped(bb) == bb

irq_disable(bb) == [bb EXCEPT !.irq_off = TRUE, !.disables = @ + 1]

irq_enable(bb) == [bb EXCEPT !.irq_off = FALSE, !.enables = @ + 1]

\* gpio_in_read(dout) during the data pulses: the chip holds dout low while
\* a conversion waits, shifts the conversion out on the rising clock edges,
\* most significant bit first, and holds dout high after the 24th bit
hx71x_dout(bits, rises) ==
    IF rises = 0 THEN 0 ELSE IF rises <= 24 THEN bits[rises] ELSE 1

\* counts = (counts << 1) | gpio_in_read(dout): the shifted value has bit 0
\* clear, so the | sets it to the level read
hx71x_shift_bit(counts, level) == counts * 2 + level

\* the data loop going one pulse further
hx71x_data_loop_25(sample_idx) == sample_idx < 25

\* sample_idx < 24, the condition of the data loop
hx71x_data_loop(sample_idx) == sample_idx < 24

\* the ready state probed during every gain pulse
hx71x_probe_pulse_any(gain_idx) == TRUE

\* gain_idx == 0, the condition of the ready probe
hx71x_probe_pulse(gain_idx) == gain_idx = 0

PulseDone(name, bb) ==
    /\ bitbang' = bb
    /\ calls' = <<Call(name, bitbang.oid, 0, 0, Zero32, <<>>)>>

\* one iteration of the foreach_oid loop of hx71x_capture_task up to the
\* first pulse of hx71x_read_adc: a device that is not pending is passed
\* over, a chip that is not ready ends the read, a ready chip starts the
\* data loop.  in: the level of dout at entry, the conversion the chip
\* holds, and the tick counter at start and at re-arm
hx71x_read_start(in) ==
    /\ Running
    /\ task.name = "hx71x" /\ bitbang.pc = "idle"
    /\ LET oid == task.oid
           c0 == Ctx(hx71x[oid],
                     <<Call("hx71x_read_adc", oid, 0, 0, Zero32, <<>>)>>)
           c1 == Log(c0, Call("hx71x_is_data_ready", oid, 1, 0, Zero32,
                              <<>>))
       IN  IF oids[oid] = "hx71x" /\ hx71x[oid].pending_flag # 0
           THEN IF hx71x_is_data_ready(in.pin) = 0
                THEN /\ Hx71xDone(hx71x_read_adc(c0, oid, in), oid)
                     /\ task' = TaskNext
                     /\ UNCHANGED bitbang
                ELSE /\ calls' = timer_read_time(c1, oid, in.t_start).calls
                     /\ bitbang' = [NoBitbang EXCEPT
                                        !.pc = "irq_disable", !.loop = "data",
                                        !.oid = oid, !.bits = in.bits,
                                        !.start_time = in.t_start]
                     /\ UNCHANGED <<hx71x, shutdown_reason, task>>
           ELSE /\ calls' = <<>>
                /\ task' = TaskNext
                /\ UNCHANGED <<hx71x, shutdown_reason, bitbang, group>>
    /\ UNCHANGED <<oid_count, oids, ads1220, wake_ads1220, wake_hx71x, probe, group>>

\* irq_disable() at the head of a pulse of either loop
hx71x_pulse_irq_disable ==
    /\ Running
    /\ bitbang.pc = "irq_disable"
    /\ PulseDone("irq_disable",
                 [irq_disable(bitbang) EXCEPT !.pc = "sclk_high"])
    /\ UNCHANGED <<oid_count, oids, ads1220, hx71x, wake_ads1220, wake_hx71x,
                   task, shutdown_reason, probe, group>>

\* gpio_out_write(sclk, 1) and the delay with the clock high; in the gain
\* loop the first pulse probes the ready state.  level: the level of dout
\* during a gain pulse
hx71x_pulse_sclk_high(level) ==
    /\ Running
    /\ bitbang.pc = "sclk_high"
    /\ hx71x' = [hx71x EXCEPT ![bitbang.oid].sclk = 1]
    /\ LET bb == [bitbang EXCEPT !.pc = "sclk_low", !.rises = @ + 1]
       IN  IF bitbang.loop = "gain"
           THEN PulseDone("gpio_out_write",
                    [bb EXCEPT
                        !.is_ready =
                            IF hx71x_probe_pulse(bitbang.gain_idx)
                            THEN hx71x_is_data_ready(level) ELSE @,
                        !.probes =
                            IF hx71x_probe_pulse(bitbang.gain_idx)
                            THEN @ + 1 ELSE @,
                        !.level_gain1 =
                            IF bitbang.gain_idx = 0 THEN level ELSE @])
           ELSE PulseDone("gpio_out_write", bb)
    /\ UNCHANGED <<oid_count, oids, ads1220, wake_ads1220, wake_hx71x, task,
                   shutdown_reason, probe, group>>

\* gpio_out_write(sclk, 0) and the read of the end time
hx71x_pulse_sclk_low ==
    /\ Running
    /\ bitbang.pc = "sclk_low"
    /\ hx71x' = [hx71x EXCEPT ![bitbang.oid].sclk = 0]
    /\ PulseDone("gpio_out_write",
                 [bitbang EXCEPT !.pc = "irq_enable", !.falls = @ + 1])
    /\ UNCHANGED <<oid_count, oids, ads1220, wake_ads1220, wake_hx71x, task,
                   shutdown_reason, probe, group>>

\* irq_enable() at the end of a pulse; a gain pulse ends its iteration here
hx71x_pulse_irq_enable ==
    /\ Running
    /\ bitbang.pc = "irq_enable"
    /\ LET bb == irq_enable(bitbang)
           gain_idx == bitbang.gain_idx + 1
       IN  IF bitbang.loop = "data"
           THEN PulseDone("irq_enable", [bb EXCEPT !.pc = "sample"])
           ELSE PulseDone("irq_enable",
                    [bb EXCEPT
                        !.gain_idx = gain_idx,
                        !.pc = IF gain_idx
                                    < hx71x[bitbang.oid].gain_channel
                               THEN "irq_disable" ELSE "finish"])
    /\ UNCHANGED <<oid_count, oids, ads1220, hx71x, wake_ads1220, wake_hx71x,
                   task, shutdown_reason, probe, group>>

\* the delay with the clock low and the read of the data bit, which ends an
\* iteration of the data loop
hx71x_pulse_sample ==
    /\ Running
    /\ bitbang.pc = "sample"
    /\ LET sample_idx == bitbang.sample_idx + 1
           level == hx71x_dout(bitbang.bits, bitbang.rises)
           bb == [bitbang EXCEPT
                      !.counts = hx71x_shift_bit(@, level),
                      !.sample_idx = sample_idx,
                      !.samples = @ + 1,
                      !.pc = "irq_disable"]
       IN  IF hx71x_data_loop(sample_idx)
           THEN PulseDone("gpio_in_read", bb)
           ELSE IF 0 < hx71x[bitbang.oid].gain_channel
           THEN PulseDone("gpio_in_read", [bb EXCEPT !.loop = "gain"])
           ELSE PulseDone("gpio_in_read", [bb EXCEPT !.pc = "finish"])
    /\ UNCHANGED <<oid_count, oids, ads1220, hx71x, wake_ads1220, wake_hx71x,
                   task, shutdown_reason, probe, group>>

\* hx71x_read_adc after its loops.  d: the ticks that passed since the start
\* of the read
hx71x_read_end(d) ==
    /\ Running
    /\ bitbang.pc = "finish"
    /\ LET oid == bitbang.oid
           t_end == u32_add(bitbang.start_time, ToU32(d))
           c0 == Ctx(hx71x[oid],
                     <<Call("hx71x_read_adc", oid, 0, 0, Zero32, <<>>)>>)
           c1 == Log(c0, Call("hx71x_is_data_ready", oid, 1, 0, Zero32,
                              <<>>))
       IN  Hx71xDone(
               hx71x_read_finish(
                   timer_read_time(c1, oid, bitbang.start_time), oid,
                   bitbang.start_time, bitbang.counts, bitbang.rises,
                   bitbang.is_ready,
                   [t_end |-> t_end, t_rearm |-> t_end]),
               oid)
    /\ bitbang' = [bitbang EXCEPT !.pc = "idle"]
    /\ task' = TaskNext
    /\ UNCHANGED <<oid_count, oids, ads1220, wake_ads1220, wake_hx71x, probe, group>>

(***************************************************************************)
(* The group engine of the bit-banged family: 1 to 4 chips that share the  *)
(* gain/channel configuration and are read in one synchronized cycle       *)
(***************************************************************************)
\* the largest group
MaxChips == 4
\* the clock pulses of the acquisition loop
GroupPulses == 24

Chips == 0 .. (MaxChips - 1)

\* no group configured.  dout: the level of each chip's data line, low (0)
\* when the chip holds a conversion; ready: the chips found ready at the
\* start of the cycle; late: the chips that became ready during the cycle;
\* appended: the samples the latest cycle appended
NoGroup ==
    [chip_count |-> 0, pc |-> "idle", dout |-> [i \in Chips |-> 1],
     ready |-> {}, late |-> {}, pulses |-> 0, armed |-> FALSE,
     sb |-> NullBulk, appended |-> 0]

GroupChips == 0 .. (group.chip_count - 1)

\* the cycle reported whenever any chip took part
group_reports_any(ready) == ready # {}

\* samples are reported when the primary chip (index 0) was among the ready
\* set of the cycle
group_reports(ready) == 0 \in ready

\* append one sample per chip in group order, flushing when the next append
\* would overflow the buffer; a sample is recorded as the index of its chip
RECURSIVE group_add_samples(_, _, _)
group_add_samples(c, oid, i) ==
    IF i = 0 THEN c
    ELSE LET c1 == group_add_samples(c, oid, i - 1)
             c2 == [c1 EXCEPT !.dev.sb.data = Append(@, i - 1),
                              !.dev.sb.data_count = @ + BYTES_PER_SAMPLE]
         IN  IF c2.dev.sb.data_count + BYTES_PER_SAMPLE > SbDataSize
             THEN sensor_bulk_report(c2, oid)
             ELSE c2

GroupDone(c) ==
    /\ group' = c.dev
    /\ calls' = c.calls
    /\ shutdown_reason' = c.halt

\* Configure: validates the chip-group size (1 to 4)
group_config(n) ==
    /\ Running
    /\ group.chip_count = 0
    /\ LET c0 == Ctx(group, <<Call("group_config", 0, n, 0, Zero32, <<>>)>>)
       IN  IF n < 1 \/ n > MaxChips
           THEN GroupDone(shutdown(c0, 0, "group size out of range"))
           ELSE GroupDone([c0 EXCEPT !.dev.chip_count = n,
                                     !.dev.armed = TRUE])
    /\ UNCHANGED <<oid_count, oids, ads1220, hx71x, wake_ads1220, wake_hx71x,
                   task, probe, bitbang>>

\* a chip completes a conversion and drives its data line low, on its own
\* clock: at any time, also in the middle of a cycle
group_chip_ready(i) ==
    /\ Running
    /\ i \in GroupChips
    /\ group.dout[i] = 1
    /\ group' = [group EXCEPT
                    !.dout[i] = 0,
                    !.late = IF group.pc = "cycle" THEN @ \cup {i} ELSE @]
    /\ calls' = <<>>
    /\ UNCHANGED <<oid_count, oids, ads1220, hx71x, wake_ads1220, wake_hx71x,
                   task, shutdown_reason, probe, bitbang>>

\* the start of a cycle: each chip is polled on its own; with no chip ready
\* the timer is re-armed and the engine returns
group_cycle_start ==
    /\ Running
    /\ group.chip_count > 0 /\ group.pc = "idle" /\ group.armed
    /\ LET ready == {i \in GroupChips : hx71x_is_data_ready(group.dout[i]) = 1}
       IN  IF ready = {}
           THEN /\ group' = [group EXCEPT !.appended = 0, !.ready = {},
                                          !.late = {}, !.pulses = 0]
                /\ calls' = <<Call("group_read", 0, 0, 0, Zero32, <<>>)>>
           ELSE /\ group' = [group EXCEPT !.pc = "cycle", !.ready = ready,
                                          !.late = {}, !.pulses = 0,
                                          !.appended = 0, !.armed = FALSE]
                /\ calls' = <<Call("group_read", 0, Cardinality(ready), 0,
                                   Zero32, <<>>)>>
    /\ UNCHANGED <<oid_count, oids, ads1220, hx71x, wake_ads1220, wake_hx71x,
                   task, shutdown_reason, probe, bitbang>>

\* one clock pulse of the cycle, driven on the chips of the ready set
group_pulse ==
    /\ Running
    /\ group.pc = "cycle" /\ group.pulses < GroupPulses
    /\ group' = [group EXCEPT !.pulses = @ + 1]
    /\ calls' = <<>>
    /\ UNCHANGED <<oid_count, oids, ads1220, hx71x, wake_ads1220, wake_hx71x,
                   task, shutdown_reason, probe, bitbang>>

\* the end of the cycle: the chips of the ready set gave their conversion
\* and raise their data lines, a chip that became ready meanwhile keeps its
\* own; the samples are buffered when the primary chip took part; re-arm
group_cycle_end ==
    /\ Running
    /\ group.pc = "cycle" /\ group.pulses = GroupPulses
    /\ LET c0 == Ctx([group EXCEPT
                         !.pc = "idle", !.armed = TRUE,
                         !.dout = [i \in Chips |->
                                      IF i \in group.ready THEN 1 ELSE @[i]]],
                     <<Call("group_read", 0, Cardinality(group.ready), 0,
                            Zero32, <<>>)>>)
           c1 == group_add_samples(c0, 0, group.chip_count)
       IN  IF group_reports(group.ready)
           THEN GroupDone([c1 EXCEPT !.dev.appended = group.chip_count])
           ELSE GroupDone(c0)
    /\ UNCHANGED <<oid_count, oids, ads1220, hx71x, wake_ads1220, wake_hx71x,
                   task, probe, bitbang>>

(***************************************************************************)
(* Inputs                                                                  *)
(***************************************************************************)
\* values of the 32-bit tick counter, on both sides of its wrap-around
TimeVals == {U32(65535, 65533), U32(0, 2)}

\* ticks that pass between the start and the end of a read
Durations == {1, 2, 3}

\* rest_ticks arguments of the query commands
RestArgs == {Zero32, ToU32(4), ToU32(5)}

\* gain_channel arguments of config_hx71x
GainArgs == {ToU32(0), ToU32(1), ToU32(4), ToU32(5), ToU32(257),
             U32(65535, 65535)}

\* load_cell_endstop_oid_lookup(): the endstops that can be attached
LceArgs == {1, 2}

\* 24-bit patterns a chip can deliver: 0x000001, 0x7FFFFF, 0x800000, 0xFFFFFF
Patterns == {<<0, 0, 1>>, <<127, 255, 255>>, <<128, 0, 0>>, <<255, 255, 255>>}

\* the pattern as the 24 levels of the data line, first sampled bit first
Bits(msg) ==
    [i \in 1 .. 24 |->
        LET byte == msg[((i - 1) \div 8) + 1]
        IN  (byte \div (2 ^ (7 - ((i - 1) % 8)))) % 2]

ReadTimes(times, durs) ==
    {[t_start |-> t, t_end |-> u32_add(t, ToU32(d)),
      t_rearm |-> u32_add(t, ToU32(d))] : t \in times, d \in durs}

Ads1220Inputs(times, durs, pats) ==
    {[pin |-> p, msg |-> m, t_start |-> rt.t_start, t_end |-> rt.t_end,
      t_rearm |-> rt.t_rearm] :
        p \in {0, 1}, m \in pats, rt \in ReadTimes(times, durs)}

Hx71xInputs(times, durs, pats) ==
    {[pin |-> p, bits |-> Bits(m), pin_gain |-> g, t_start |-> rt.t_start,
      t_end |-> rt.t_end, t_rearm |-> rt.t_rearm] :
        p \in {0, 1}, m \in pats, g \in {0, 1}, rt \in ReadTimes(times, durs)}

\* ticks that pass between the two reads of the counter of a status query
StatusDurations == {1}

\* inputs of a status query: the pin level and the two reads of the counter
StatusInputs(times, durs) ==
    {[pin |-> p, t_start |-> rt.t_start, t_end |-> rt.t_end] :
        p \in {0, 1}, rt \in ReadTimes(times, durs)}

(***************************************************************************)
(* Specification: one device, all inputs                                   *)
(***************************************************************************)
NoProbe == [x |-> 0, ads1220 |-> 0, hx71x |-> 0, done |-> FALSE]

InitDevices(n) ==
    /\ oid_count = n
    /\ oids = [o \in 0 .. (n - 1) |-> "none"]
    /\ ads1220 = [o \in 0 .. (n - 1) |-> NullAds1220]
    /\ hx71x = [o \in 0 .. (n - 1) |-> NullHx71x]
    /\ wake_ads1220 = FALSE
    /\ wake_hx71x = FALSE
    /\ task = [name |-> "none", oid |-> 0]
    /\ shutdown_reason = ""
    /\ calls = <<>>
    /\ bitbang = NoBitbang
    /\ group = NoGroup

InitWith(n) == InitDevices(n) /\ probe = NoProbe

Init == InitWith(1)

Next ==
    \/ \E oid \in Oids : command_config_ads1220(oid)
    \/ \E oid \in Oids, lce \in LceArgs :
          command_attach_endstop_ads1220(oid, lce)
    \/ \E oid \in Oids, r \in RestArgs, t \in TimeVals :
          command_query_ads1220(oid, r, t)
    \/ \E oid \in Oids, in \in StatusInputs(TimeVals, StatusDurations) :
          command_query_ads1220_status(oid, in)
    \/ \E oid \in Oids : ads1220_event(oid)
    \/ ads1220_capture_task
    \/ \E in \in Ads1220Inputs(TimeVals, Durations, Patterns) :
          ads1220_capture_task_oid(in)
    \/ \E oid \in Oids, g \in GainArgs : command_config_hx71x(oid, g)
    \/ \E oid \in Oids, lce \in LceArgs :
          command_attach_endstop_hx71x(oid, lce)
    \/ \E oid \in Oids, r \in RestArgs, t \in TimeVals :
          command_query_hx71x(oid, r, t)
    \/ \E oid \in Oids, in \in StatusInputs(TimeVals, StatusDurations) :
          command_query_hx71x_status(oid, in)
    \/ \E oid \in Oids : hx71x_event(oid)
    \/ hx71x_capture_task
    \/ \E in \in Hx71xInputs(TimeVals, Durations, Patterns) :
          hx71x_capture_task_oid(in)

Spec == Init /\ [][Next]_vars

(***************************************************************************)
(* Specification: every oid of the registry in use, devices of one family  *)
(* sharing the wake condition, one value for each data input               *)
(***************************************************************************)
MultiTimes == {U32(65535, 65535)}
MultiDurations == {0}
MultiPatterns == {<<0, 0, 1>>}
MultiRestArgs == {Zero32, ToU32(4)}
MultiGainArgs == {ToU32(1)}

InitMulti == InitWith(MaxOids)

NextMulti ==
    \/ \E oid \in Oids : command_config_ads1220(oid)
    \/ \E oid \in Oids, r \in MultiRestArgs, t \in MultiTimes :
          command_query_ads1220(oid, r, t)
    \/ \E oid \in Oids : ads1220_event(oid)
    \/ ads1220_capture_task
    \/ \E in \in Ads1220Inputs(MultiTimes, MultiDurations, MultiPatterns) :
          ads1220_capture_task_oid(in)
    \/ \E oid \in Oids, g \in MultiGainArgs : command_config_hx71x(oid, g)
    \/ \E oid \in Oids, r \in MultiRestArgs, t \in MultiTimes :
          command_query_hx71x(oid, r, t)
    \/ \E oid \in Oids : hx71x_event(oid)
    \/ hx71x_capture_task
    \/ \E in \in Hx71xInputs(MultiTimes, MultiDurations, MultiPatterns) :
          hx71x_capture_task_oid(in)

SpecMulti == InitMulti /\ [][NextMulti]_vars

(***************************************************************************)
(* Specification of the pulse train: every oid of the registry in use by   *)
(* an HX71x, reads taken pulse by pulse, the timers of the other devices   *)
(* firing wherever interrupts are enabled                                  *)
(***************************************************************************)
PulseTimes == {U32(65535, 65535)}
PulseDurations == {1, 2}
\* 0xC00001, a negative value that reads differently in the two bit orders,
\* and 0x800000, the value the range check rejects
PulsePatterns == {<<192, 0, 1>>, <<128, 0, 0>>}
PulseRestArgs == {ToU32(4)}
PulseGainArgs == {ToU32(1), ToU32(2)}
PulseLceArgs == {1}

PulseInputs ==
    {[pin |-> p, bits |-> Bits(m), pin_gain |-> 1, t_start |-> t,
      t_end |-> t, t_rearm |-> t] :
        p \in {0, 1}, m \in PulsePatterns, t \in PulseTimes}

InitPulse == InitWith(MaxOids)

NextPulse ==
    \/ \E oid \in Oids, g \in PulseGainArgs : command_config_hx71x(oid, g)
    \/ \E oid \in Oids, lce \in PulseLceArgs :
          command_attach_endstop_hx71x(oid, lce)
    \/ \E oid \in Oids, r \in PulseRestArgs, t \in PulseTimes :
          command_query_hx71x(oid, r, t)
    \/ \E oid \in Oids : hx71x_event(oid)
    \/ hx71x_capture_task
    \/ \E in \in PulseInputs : hx71x_read_start(in)
    \/ hx71x_pulse_irq_disable
    \/ \E level \in {0, 1} : hx71x_pulse_sclk_high(level)
    \/ hx71x_pulse_sclk_low
    \/ hx71x_pulse_irq_enable
    \/ hx71x_pulse_sample
    \/ \E d \in PulseDurations : hx71x_read_end(d)

SpecPulse == InitPulse /\ [][NextPulse]_vars

(***************************************************************************)
(* Specification of the group engine                                       *)
(***************************************************************************)
GroupSizes == 0 .. (MaxChips + 1)

InitGroup == InitWith(1)

NextGroup ==
    \/ \E n \in GroupSizes : group_config(n)
    \/ \E i \in Chips : group_chip_ready(i)
    \/ group_cycle_start
    \/ group_pulse
    \/ group_cycle_end

SpecGroup == InitGroup /\ [][NextGroup]_vars

(***************************************************************************)
(* Specification of the sign extensions: a 24-bit pattern is decoded by    *)
(* each engine as a read decodes it                                        *)
(***************************************************************************)
\* how far the patterns tried reach from 0, from the sign bit and from
\* 0xFFFFFF
ExtendSpan == 40

ExtendInputs ==
    (0 .. ExtendSpan)
    \cup ((2^23 - ExtendSpan) .. (2^23 + ExtendSpan))
    \cup ((2^24 - 1 - ExtendSpan) .. (2^24 - 1))
    \cup {2^k : k \in 0 .. 23}
    \cup {2^24 - 2^k : k \in 0 .. 23}

\* the pattern as the 3 bytes of the SPI transfer, most significant first
Msg(x) == <<x \div 65536, (x \div 256) % 256, x % 256>>

InitExtend ==
    /\ InitDevices(1)
    /\ probe \in {[x |-> v, ads1220 |-> 0, hx71x |-> 0, done |-> FALSE] :
                    v \in ExtendInputs}

\* the decoding steps of ads1220_read_adc and of hx71x_read_adc
sign_extend ==
    /\ ~probe.done
    /\ probe' = [x |-> probe.x,
                 ads1220 |-> ads1220_sign_extend(
                                 ads1220_counts_original(Msg(probe.x))),
                 hx71x |-> hx71x_sign_extend(
                               hx71x_shift_in(Bits(Msg(probe.x)), 24)),
                 done |-> TRUE]
    /\ UNCHANGED <<oid_count, oids, ads1220, hx71x, wake_ads1220, wake_hx71x,
                   task, shutdown_reason, calls, bitbang, group>>

NextExtend == sign_extend

SpecExtend == InitExtend /\ [][NextExtend]_vars

(***************************************************************************)
(* Reading the calls of the latest handler                                 *)
(***************************************************************************)
Handler == IF calls = <<>> THEN "" ELSE calls[1].call
HandlerOid == calls[1].oid
CallsTo(name) == SelectSeq(calls, LAMBDA e : e.call = name)
CallIdx(name) == {i \in DOMAIN calls : calls[i].call = name}

IsAdsRead == Handler = "ads1220_read_adc"
IsHxRead == Handler = "hx71x_read_adc"
IsRead == IsAdsRead \/ IsHxRead

\* the device the latest acquisition attempt worked on
ReadSb == IF IsAdsRead THEN ads1220[HandlerOid].sb ELSE hx71x[HandlerOid].sb
ReadTimer ==
    IF IsAdsRead THEN ads1220[HandlerOid].timer ELSE hx71x[HandlerOid].timer
ReadRest ==
    IF IsAdsRead THEN ads1220[HandlerOid].rest_ticks
    ELSE hx71x[HandlerOid].rest_ticks
ReadLce == IF IsAdsRead THEN ads1220[HandlerOid].lce ELSE hx71x[HandlerOid].lce

\* the attempt found the chip ready
ReadReady == IsRead /\ calls[2].n = 1
\* the attempt measured its duration: start and end tick were both read
ReadMeasured == ReadReady /\ Len(CallsTo("timer_read_time")) >= 2
ReadStart == CallsTo("timer_read_time")[1].time
ReadDuration ==
    u32_sub(CallsTo("timer_read_time")[2].time, ReadStart)
\* the attempt ended in shutdown / ran to its end
ReadShutdown == IsRead /\ CallIdx("shutdown") # {}
ReadAccepted == ReadReady /\ ~ReadShutdown

\* the four bytes at the end of a byte sequence, as the int32_t they encode
LastSample(data) ==
    LET n == Len(data)
    IN  u32_to_i32(<<data[n] * 256 + data[n - 1],
                     data[n - 2] * 256 + data[n - 3]>>)

(***************************************************************************)
(* C1: the sink buffer of every device of either family always has room    *)
(* for one more 4-byte sample (data_count + 4 <= capacity), so its byte     *)
(* count never exceeds the capacity, because the flush check after each     *)
(* append empties the buffer as soon as one more sample would not fit.      *)
(***************************************************************************)
C1_BufferHasRoom ==
    \A oid \in Oids :
        /\ ads1220[oid].sb.data_count + BYTES_PER_SAMPLE <= SbDataSize
        /\ ads1220[oid].sb.data_count = Len(ads1220[oid].sb.data)
        /\ hx71x[oid].sb.data_count + BYTES_PER_SAMPLE <= SbDataSize
        /\ hx71x[oid].sb.data_count = Len(hx71x[oid].sb.data)

\* a read whose append filled the buffer and whose flush check emptied it
C1_Witness ==
    /\ IsHxRead /\ ReadAccepted
    /\ \E i \in CallIdx("sensor_bulk_report") :
          calls[i].n + BYTES_PER_SAMPLE > SbDataSize
    /\ ReadSb.data_count = 0

(***************************************************************************)
(* C2: a ready read whose measured duration exceeds the timing budget      *)
(* (half of rest_ticks) ends in shutdown; that read appends nothing to the *)
(* sink buffer, does not notify the endstop, issues no flush and does not  *)
(* re-arm the timer.                                                       *)
(***************************************************************************)
C2_Exceeds ==
    /\ ReadMeasured
    /\ 2 * u32_to_i32(ReadDuration) > u32_to_i32(ReadRest)

C2_NoEffect ==
    /\ \A oid \in Oids :
          /\ ads1220'[oid].sb = ads1220[oid].sb
          /\ ads1220'[oid].timer = ads1220[oid].timer
          /\ hx71x'[oid].sb = hx71x[oid].sb
          /\ hx71x'[oid].timer = hx71x[oid].timer
    /\ (CallIdx("load_cell_endstop_report_sample"))' = {}
    /\ (CallIdx("sensor_bulk_report"))' = {}
    /\ (CallIdx("sched_add_timer"))' = {}

C2_TimingShutdown ==
    [][C2_Exceeds' => (shutdown_reason' # "" /\ C2_NoEffect)]_vars

C2_Witness ==
    /\ IsHxRead /\ C2_Exceeds
    /\ shutdown_reason = "HX71x Read took too long"

(***************************************************************************)
(* C3: a stopped device (rest_ticks = 0: from the return of a query        *)
(* command with period 0 until the next query command with a nonzero       *)
(* period) is quiescent: it has no timer scheduled and its pending flag is *)
(* clear, and no step taken while it stays stopped invokes its acquisition *)
(* engine or changes its sink buffer.                                      *)
(***************************************************************************)
C3_StoppedStep(oid) ==
    /\ ads1220'[oid].rest_ticks = Zero32 =>
          /\ ~ads1220'[oid].timer.scheduled
          /\ ~is_flag_set(FLAG_PENDING, ads1220'[oid].flags)
    /\ hx71x'[oid].rest_ticks = Zero32 =>
          /\ ~hx71x'[oid].timer.scheduled
          /\ hx71x'[oid].pending_flag = 0
    /\ (ads1220[oid].rest_ticks = Zero32 /\ ads1220'[oid].rest_ticks = Zero32)
          => /\ ads1220'[oid].sb = ads1220[oid].sb
             /\ ~(IsAdsRead' /\ HandlerOid' = oid)
    /\ (hx71x[oid].rest_ticks = Zero32 /\ hx71x'[oid].rest_ticks = Zero32)
          => /\ hx71x'[oid].sb = hx71x[oid].sb
             /\ ~(IsHxRead' /\ HandlerOid' = oid)

C3_StoppedQuiescent == [][\A oid \in Oids : C3_StoppedStep(oid)]_vars

\* a stop command on a device that has sampled, whose timer had already
\* fired (nothing left to cancel), returning with the wake still signalled
C3_Witness ==
    /\ Handler = "command_query_hx71x"
    /\ calls[1].time = Zero32
    /\ \E i \in CallIdx("sched_del_timer") : calls[i].n = 0
    /\ wake_hx71x
    /\ hx71x[HandlerOid].sb.data_count > 0
    /\ hx71x[HandlerOid].pending_flag = 0

(***************************************************************************)
(* C4: at most one timer is ever outstanding per device: sched_add_timer() *)
(* is called for a device's timer only when that timer is not currently    *)
(* scheduled (it has fired, or the query command cancelled it).            *)
(***************************************************************************)
C4_AddOnlyWhenUnscheduled ==
    \A i \in CallIdx("sched_add_timer") : calls[i].n = 0

\* the same for the devices of the bit-banged engine alone
C4_Hx71xAddOnlyWhenUnscheduled ==
    IsHxRead => C4_AddOnlyWhenUnscheduled

(***************************************************************************)
(* C5: in the bit-banged engine a read within the timing budget, with the  *)
(* ready line released after the first gain pulse, whose 24 data bits are  *)
(* 0x800000 is not an error: no shutdown, the sample -8388608 is appended  *)
(* to the sink buffer and the timer is re-armed.                           *)
(***************************************************************************)
\* the value the latest accepted read appended: the last sample of the
\* buffer, or of the batch its flush handed over
ReadAppended ==
    IF CallIdx("sensor_bulk_report") # {}
    THEN LastSample(CallsTo("sensor_bulk_report")[1].data)
    ELSE LastSample(ReadSb.data)

C5_MinNegativeAccepted ==
    (/\ IsHxRead /\ ReadMeasured
     /\ CallsTo("hx71x_clock_pulses")[1].val = 8388608
     /\ CallsTo("hx71x_is_data_ready")[2].n = 0
     /\ 2 * u32_to_i32(ReadDuration) < u32_to_i32(ReadRest))
    => /\ shutdown_reason = ""
       /\ ReadAppended = -8388608
       /\ ReadTimer.scheduled

(***************************************************************************)
(* C6: the endstop consumer is notified exactly once for every accepted    *)
(* read of a device with an endstop attached, within that read and before  *)
(* the timer is re-armed, with the attached endstop, the value the read    *)
(* appends to the sink buffer and the tick read at the start of the read   *)
(* (before the bus transfer or the first clock pulse); it is not notified  *)
(* by a not-ready attempt, by a read that ends in shutdown, for a device   *)
(* without endstop, or by any other handler.                               *)
(***************************************************************************)
LceCalls == CallIdx("load_cell_endstop_report_sample")

C6_EndstopNotified ==
    IF ReadAccepted /\ ReadLce # 0
    THEN /\ Cardinality(LceCalls) = 1
         /\ \A i \in LceCalls :
               /\ calls[i].n = ReadLce
               /\ calls[i].val = ReadAppended
               /\ calls[i].time = ReadStart
               /\ \A j \in CallIdx("sched_add_timer") : i < j
         /\ calls[3].call = "timer_read_time"
         /\ calls[4].call \in {"spidev_transfer", "hx71x_clock_pulses"}
         /\ Cardinality(CallIdx("sched_add_timer")) = 1
    ELSE LceCalls = {}

\* an accepted read of the SPI engine that notified the endstop with a
\* negative sample
C6_Witness ==
    /\ IsAdsRead /\ ReadAccepted /\ ReadLce # 0
    /\ \E i \in LceCalls : calls[i].val = -8388608

(***************************************************************************)
(* C7: for a 24-bit pattern x, the sign extension of each engine yields    *)
(* x read as 24-bit two's complement (x below 2^23, else x - 2^24); the    *)
(* low 24 bits of the result are x again; the two engines agree.           *)
(***************************************************************************)
TwosComplement24(x) == IF x < 2^23 THEN x ELSE x - 2^24

\* the low 24 bits of an int32_t
Truncate24(v) ==
    LET u == i32_to_u32(v) IN (u[1] % 256) * H16 + u[2]

C7_SignExtension ==
    probe.done =>
        /\ probe.ads1220 = TwosComplement24(probe.x)
        /\ probe.hx71x = TwosComplement24(probe.x)
        /\ Truncate24(probe.ads1220) = probe.x
        /\ Truncate24(probe.hx71x) = probe.x
        /\ probe.ads1220 = probe.hx71x

C7_Witness ==
    /\ probe.done
    /\ probe.x = 8388608
    /\ probe.hx71x = -8388608
    /\ probe.ads1220 = -8388608

(***************************************************************************)
(* C8: config_hx71x ends in shutdown for every gain/channel argument       *)
(* outside 1..4, over the whole 32-bit range of the argument, with no      *)
(* timer armed; an accepted configuration stores the argument itself,      *)
(* which lies in 1..4.                                                     *)
(***************************************************************************)
C8_ConfigChecksGain ==
    Handler = "command_config_hx71x" =>
        LET arg == calls[1].time
            dev == hx71x[HandlerOid]
        IN  IF arg[1] = 0 /\ arg[2] \in 1 .. 4
            THEN /\ shutdown_reason = ""
                 /\ dev.gain_channel = arg[2]
            ELSE /\ shutdown_reason = "HX71x gain/channel out of range 1-4"
                 /\ ~dev.timer.scheduled

C10_Started(name, dev, pending) ==
    (Handler = name /\ calls[1].time # Zero32) =>
        LET n == Len(calls)
        IN  /\ dev.sb.data_count = 0
            /\ ~pending
            /\ dev.rest_ticks = calls[1].time
            /\ CallIdx("sched_add_timer") = {n}
            /\ calls[n].n = 0
            /\ dev.timer = [scheduled |-> TRUE,
                            waketime |-> u32_add(calls[n - 1].time,
                                                 calls[1].time)]

C10_AfterStart ==
    /\ C10_Started("command_query_ads1220", ads1220[HandlerOid],
                   is_flag_set(FLAG_PENDING, ads1220[HandlerOid].flags))
    /\ C10_Started("command_query_hx71x", hx71x[HandlerOid],
                   hx71x[HandlerOid].pending_flag # 0)

C10_AttemptAfterFire ==
    /\ IsAdsRead' => ~ads1220[HandlerOid'].timer.scheduled
    /\ IsHxRead' => ~hx71x[HandlerOid'].timer.scheduled

C10_QueryStart == [][C10_AfterStart' /\ C10_AttemptAfterFire]_vars

\* the part of C10 about the state the bit-banged engine's command leaves
C10_Hx71xAfterStart ==
    C10_Started("command_query_hx71x", hx71x[HandlerOid],
                hx71x[HandlerOid].pending_flag # 0)

(***************************************************************************)
(* Specification with the scheduling the firmware gives: the task loop     *)
(* calls every task function in turn, so a capture task whose wake is      *)
(* signalled again and again gets to run (strong fairness); a started      *)
(* foreach_oid loop goes on to its end, and a scheduled timer fires once   *)
(* the tick counter reaches its wake time (weak fairness).  The commands   *)
(* of the host have no fairness.                                           *)
(***************************************************************************)
\* one iteration of the foreach_oid loop of the named capture task, whatever
\* the iteration does: the steps of ads1220_capture_task_oid and of
\* hx71x_capture_task_oid are the steps that move the task's position
LoopStep(name) == Running /\ task.name = name /\ task' = TaskNext

FairScheduling ==
    /\ SF_vars(ads1220_capture_task)
    /\ SF_vars(hx71x_capture_task)
    /\ WF_task(LoopStep("ads1220"))
    /\ WF_task(LoopStep("hx71x"))
    /\ \A oid \in 0 .. (MaxOids - 1) :
          WF_vars(ads1220_event(oid)) /\ WF_vars(hx71x_event(oid))

SpecMultiFair == SpecMulti /\ FairScheduling

(***************************************************************************)
(* C11: no timer fire is lost.  With the capture tasks scheduled fairly,   *)
(* whenever the timer of a device fires, an acquisition attempt for that   *)
(* device follows, unless a query command for the device or a shutdown     *)
(* comes first; this also when the fires of several devices meet in one    *)
(* wake and when the fire comes while the task is inside its loop.  And a  *)
(* device whose timer is scheduled is attempted again, unless a query      *)
(* command or a shutdown comes first: an armed device is polled again and  *)
(* again.                                                                  *)
(***************************************************************************)
Fired(oid) ==
    /\ Handler \in {"ads1220_event", "hx71x_event"}
    /\ HandlerOid = oid

Armed(oid) == ads1220[oid].timer.scheduled \/ hx71x[oid].timer.scheduled

Attempted(oid) == IsRead /\ HandlerOid = oid

Queried(oid) ==
    /\ Handler \in {"command_query_ads1220", "command_query_hx71x"}
    /\ HandlerOid = oid

IsStatus ==
    Handler \in {"command_query_ads1220_status", "command_query_hx71x_status"}

C12_StatusFrame ==
    [][IsStatus' =>
          /\ ads1220' = ads1220
          /\ hx71x' = hx71x
          /\ wake_ads1220' = wake_ads1220
          /\ wake_hx71x' = wake_hx71x
          /\ shutdown_reason' = ""
          /\ Len(calls') = 5
          /\ calls'[5].call = "sensor_bulk_status"]_vars

\* a status query on an armed bit-banged device with its pending flag set,
\* a sample in its buffer and a sample ready at the chip
C12_Witness ==
    /\ Handler = "command_query_hx71x_status"
    /\ hx71x[HandlerOid].pending_flag = 1
    /\ hx71x[HandlerOid].sb.data_count = BYTES_PER_SAMPLE
    /\ hx71x[HandlerOid].timer.scheduled
    /\ calls[5].n = BYTES_PER_SAMPLE
    /\ calls[5].data = hx71x[HandlerOid].sb.data

(***************************************************************************)
(* C13: once an endstop has been attached to a device, the endstop link    *)
(* of the device keeps that value: no later command (attach, start, stop,  *)
(* status) and no read changes it.                                         *)
(***************************************************************************)
C13_LinkKept ==
    [][\A oid \in Oids :
          /\ ads1220[oid].lce # 0 => ads1220'[oid].lce = ads1220[oid].lce
          /\ hx71x[oid].lce # 0 => hx71x'[oid].lce = hx71x[oid].lce]_vars

(***************************************************************************)
(* C13 as amended: once an endstop has been attached to a device, no       *)
(* start, stop or status command and no read changes the endstop link of   *)
(* the device; only a later attach command for the device changes it, to   *)
(* the endstop that command names.                                         *)
(***************************************************************************)
IsAttach(oid) ==
    /\ Handler \in {"command_attach_endstop_ads1220",
                    "command_attach_endstop_hx71x"}
    /\ HandlerOid = oid

C13_LinkKeptUnlessAttach ==
    [][\A oid \in Oids :
          /\ (ads1220[oid].lce # 0 /\ ads1220'[oid].lce # ads1220[oid].lce)
                => (IsAttach(oid))' /\ ads1220'[oid].lce = calls'[1].n
          /\ (hx71x[oid].lce # 0 /\ hx71x'[oid].lce # hx71x[oid].lce)
                => (IsAttach(oid))' /\ hx71x'[oid].lce = calls'[1].n]_vars

\* a stop command on a device that has the second endstop attached and
\* samples in its buffer
C13_Witness ==
    /\ Handler = "command_query_hx71x"
    /\ calls[1].time = Zero32
    /\ hx71x[HandlerOid].lce = 2
    /\ hx71x[HandlerOid].sb.data_count > 0

(***************************************************************************)
(* C15: the pending flag of a device is set only by the firing of that     *)
(* device's timer and is cleared by the attempt it triggered: in every     *)
(* state, pending set implies that the device's timer is not scheduled;    *)
(* when an acquisition attempt returns (ready or not ready) the flag is    *)
(* clear; and the flag goes from clear to set only in the device's timer   *)
(* event, so the capture task attempts a device only after the device's    *)
(* own timer has fired since its previous attempt.                         *)
(***************************************************************************)
AdsPending(oid) == is_flag_set(FLAG_PENDING, ads1220[oid].flags)
HxPending(oid) == hx71x[oid].pending_flag # 0

C15_PendingStep(oid) ==
    /\ AdsPending(oid)' => ~ads1220'[oid].timer.scheduled
    /\ HxPending(oid)' => ~hx71x'[oid].timer.scheduled
    /\ (IsAdsRead' /\ ~ReadShutdown' /\ HandlerOid' = oid) => ~AdsPending(oid)'
    /\ (IsHxRead' /\ ~ReadShutdown' /\ HandlerOid' = oid) => ~HxPending(oid)'
    /\ (~AdsPending(oid) /\ AdsPending(oid)')
          => (Handler' = "ads1220_event" /\ HandlerOid' = oid)
    /\ (~HxPending(oid) /\ HxPending(oid)')
          => (Handler' = "hx71x_event" /\ HandlerOid' = oid)

C15_PendingDiscipline == [][\A oid \in Oids : C15_PendingStep(oid)]_vars

\* the part of C15 that a not-ready attempt of the bit-banged engine breaks
C15_Hx71xPendingClearedByAttempt ==
    (IsHxRead /\ ~ReadShutdown) => ~HxPending(HandlerOid)

\* the part of C15 that the start command of the SPI engine breaks
C15_Ads1220PendingOnlyUnscheduled ==
    \A oid \in Oids : AdsPending(oid) => ~ads1220[oid].timer.scheduled

(***************************************************************************)
(* Specification of the SPI engine's decoding inside its read: one         *)
(* ads1220 device that is configured, started and read, the transfer       *)
(* returning patterns next to 0, to the sign bit and to 0xFFFFFF, and       *)
(* patterns with a single bit set or only the bits above one bit set       *)
(***************************************************************************)
\* how far the patterns tried reach from 0, from the sign bit and from
\* 0xFFFFFF
DecodeSpan == 2

DecodeInputs ==
    (0 .. DecodeSpan)
    \cup ((2^23 - DecodeSpan) .. (2^23 + DecodeSpan))
    \cup ((2^24 - 1 - DecodeSpan) .. (2^24 - 1))
    \cup {2^(4 * k) : k \in 0 .. 5}
    \cup {2^24 - 2^(4 * k) : k \in 0 .. 5}

DecodePatterns == {Msg(x) : x \in DecodeInputs}
DecodeDurations == {1, 2}
DecodeRestArgs == {Zero32, ToU32(4)}

NextAdsDecode ==
    \/ \E oid \in Oids : command_config_ads1220(oid)
    \/ \E oid \in Oids, r \in DecodeRestArgs, t \in MultiTimes :
          command_query_ads1220(oid, r, t)
    \/ \E oid \in Oids : ads1220_event(oid)
    \/ ads1220_capture_task
    \/ \E in \in Ads1220Inputs(MultiTimes, DecodeDurations, DecodePatterns) :
          ads1220_capture_task_oid(in)

SpecAdsDecode == Init /\ [][NextAdsDecode]_vars

(***************************************************************************)
(* C16: a ready read of the SPI engine that met the timing budget is       *)
(* rejected for its value if and only if the 24-bit pattern received is    *)
(* 0xFFFFFF: that pattern ends in shutdown ("Possible bad read") with the  *)
(* sink buffer as it was; every other pattern, 0x7FFFFF and 0x800000       *)
(* included, is appended as its sign-extended value without shutdown; and  *)
(* the shutdown behind the check counts >= 0x800000 ("Invalid Counts") is  *)
(* never reached.                                                          *)
(***************************************************************************)
\* the 24-bit pattern the latest read of the SPI engine received
ReadPattern ==
    LET msg == CallsTo("spidev_transfer")[1].data
    IN  msg[1] * 65536 + msg[2] * 256 + msg[3]

C16_InBudgetAdsRead ==
    /\ IsAdsRead /\ ReadMeasured
    /\ 2 * u32_to_i32(ReadDuration) < u32_to_i32(ReadRest)

C16_RejectedOnlyAllOnes ==
    [][/\ shutdown_reason' # "ADS1220: Invalid Counts"
       /\ C16_InBudgetAdsRead' =>
             IF ReadPattern' = 16777215
             THEN /\ shutdown_reason' = "ADS1220: Possible bad read"
                  /\ ads1220'[HandlerOid'].sb = ads1220[HandlerOid'].sb
                  /\ CallIdx("sensor_bulk_report")' = {}
             ELSE /\ shutdown_reason' = ""
                  /\ ReadAppended' = TwosComplement24(ReadPattern')]_vars

\* a read of the pattern 0x800000 that appended -8388608 and went on
C16_Witness ==
    /\ C16_InBudgetAdsRead
    /\ ReadPattern = 8388608
    /\ shutdown_reason = ""
    /\ ReadAppended = -8388608
    /\ ReadSb.data_count = 2 * BYTES_PER_SAMPLE

(***************************************************************************)
(* C17: the timing shutdown happens exactly when the budget is exceeded:   *)
(* in both engines a ready read that measured its duration d (the          *)
(* difference of the two tick counter reads, modulo 2^32) is not shut down *)
(* for timing when d <= rest_ticks / 2, that is 2 * d <= rest_ticks, and   *)
(* is shut down for timing when 2 * d > rest_ticks, for even and for odd   *)
(* rest_ticks.                                                             *)
(***************************************************************************)
TimingReasons ==
    {"ADS1220 read timing error, read took too long",
     "HX71x Read took too long"}

C17_TimingExact ==
    ReadMeasured =>
        IF 2 * u32_to_i32(ReadDuration) <= u32_to_i32(ReadRest)
        THEN shutdown_reason \notin TimingReasons
        ELSE shutdown_reason \in TimingReasons

\* the part of C17 for durations strictly below half the period
C17_BelowHalfNotShutDown ==
    (ReadMeasured /\ 2 * u32_to_i32(ReadDuration) < u32_to_i32(ReadRest))
        => shutdown_reason \notin TimingReasons

(***************************************************************************)
(* C18: in the bit-banged engine the ready state is probed once per read,  *)
(* with the clock high during the first gain pulse.  A read whose probe    *)
(* saw the data line low ends in the shutdown "HX71x Sensor reporting data *)
(* ready after read" with no sample appended, no endstop notified and no   *)
(* timer armed, whatever the data bits and the elapsed time; a read whose  *)
(* probe saw the line high is never shut down for that reason.             *)
(***************************************************************************)
ReadyAfterRead == "HX71x Sensor reporting data ready after read"

\* the step is a ready probe / the end of a pulsed read
ProbeStep == bitbang'.probes > bitbang.probes
ReadEndStep == bitbang.pc = "finish" /\ bitbang'.pc = "idle"

C18_ProbeStep ==
    ProbeStep =>
        /\ bitbang'.probes = 1
        /\ bitbang.loop = "gain" /\ bitbang.gain_idx = 0
        /\ hx71x'[bitbang.oid].sclk = 1
        /\ bitbang'.is_ready = hx71x_is_data_ready(bitbang'.level_gain1)

C18_ReadEndStep ==
    ReadEndStep =>
        /\ bitbang.probes = 1
        /\ IF bitbang.level_gain1 = 0
           THEN /\ shutdown_reason' = ReadyAfterRead
                /\ hx71x'[bitbang.oid] = hx71x[bitbang.oid]
                /\ \A i \in DOMAIN calls' :
                      calls'[i].call \notin
                          {"load_cell_endstop_report_sample",
                           "sched_add_timer", "sensor_bulk_report"}
           ELSE shutdown_reason' # ReadyAfterRead

C18_ReadyAfterRead == [][C18_ProbeStep /\ C18_ReadEndStep]_vars

\* a pulsed read of a device with an endstop and a sample in its buffer,
\* delivering the pattern the range check rejects, was shut down because
\* the probe of its first gain pulse, of two, saw the line low
C18_Witness ==
    /\ shutdown_reason = ReadyAfterRead
    /\ bitbang.pc = "idle" /\ bitbang.rises = 26
    /\ bitbang.counts = 8388608
    /\ hx71x[bitbang.oid].lce # 0
    /\ hx71x[bitbang.oid].sb.data_count = BYTES_PER_SAMPLE

(***************************************************************************)
(* C19: every ready read of the bit-banged engine drives 24 data pulses    *)
(* and then gain_channel (1..4) configuration pulses, 24 + gain_channel in *)
(* all.  The data line is sampled into the accumulator once after the      *)
(* falling edge of each data pulse and never during a configuration pulse  *)
(* (the ready probe of C18 is not a sample of data), most significant bit  *)
(* first: before sign extension the accumulator is the 24-bit value whose  *)
(* bit 23 is the first bit sampled and whose bit 0 is the last.  An        *)
(* attempt that finds the chip not ready drives no pulse.                  *)
(***************************************************************************)
RiseStep == bitbang'.rises > bitbang.rises
SampleStep == bitbang'.samples > bitbang.samples
NotReadyStep ==
    /\ calls' # <<>> /\ calls'[1].call = "hx71x_read_adc"
    /\ calls'[2].n = 0

\* a rising edge: a data pulse follows the sample of the pulse before it, a
\* configuration pulse follows the 24 samples
C19_RiseStep ==
    RiseStep =>
        /\ bitbang'.rises = bitbang.rises + 1
        /\ hx71x[bitbang.oid].sclk = 0 /\ hx71x'[bitbang.oid].sclk = 1
        /\ IF bitbang.loop = "data"
           THEN bitbang.samples = bitbang.rises /\ bitbang.rises < 24
           ELSE /\ bitbang.samples = 24
                /\ bitbang.rises = 24 + bitbang.gain_idx
                /\ bitbang.gain_idx < hx71x[bitbang.oid].gain_channel

\* a sample: taken with the clock low again after a data pulse, it shifts
\* the bit that pulse clocked out into the low end of the accumulator
C19_SampleStep ==
    SampleStep =>
        /\ bitbang'.samples = bitbang.samples + 1
        /\ bitbang.loop = "data"
        /\ hx71x[bitbang.oid].sclk = 0
        /\ bitbang.falls = bitbang.rises
        /\ bitbang.rises = bitbang.samples + 1
        /\ bitbang'.counts =
               2 * bitbang.counts + bitbang.bits[bitbang'.samples]

\* the end of a ready read
C19_ReadEndStep ==
    ReadEndStep =>
        LET gain_channel == hx71x[bitbang.oid].gain_channel
        IN  /\ gain_channel \in 1 .. 4
            /\ bitbang.rises = 24 + gain_channel
            /\ bitbang.falls = 24 + gain_channel
            /\ bitbang.samples = 24
            /\ bitbang.counts \in 0 .. (2^24 - 1)
            /\ \A i \in 1 .. 24 :
                  Bit(bitbang.counts, 24 - i) = bitbang.bits[i]
            /\ bitbang.counts = hx71x_shift_in(bitbang.bits, 24)
            /\ calls'[4].call = "hx71x_clock_pulses"
            /\ calls'[4].n = 24 + gain_channel
            /\ calls'[4].val = bitbang.counts

\* an attempt that found the chip not ready
C19_NotReadyStep ==
    NotReadyStep =>
        /\ bitbang' = bitbang
        /\ hx71x'[calls'[1].oid].sclk = hx71x[calls'[1].oid].sclk
        /\ \A i \in DOMAIN calls' : calls'[i].call # "hx71x_clock_pulses"

ClockLow == \A oid \in Oids : hx71x[oid].sclk = 0

C20_ClockHighMasked ==
    /\ \A oid \in Oids :
          hx71x[oid].sclk = 1 =>
              /\ bitbang.irq_off
              /\ bitbang.oid = oid /\ bitbang.pc = "sclk_low"
    /\ bitbang.irq_off <=> bitbang.disables = bitbang.enables + 1
    /\ ~bitbang.irq_off <=> bitbang.disables = bitbang.enables
    /\ bitbang.pc \in {"idle", "finish"} => (ClockLow /\ ~bitbang.irq_off)

\* the four statements of a pulse, in their order
C20_PulseStep ==
    /\ bitbang'.disables > bitbang.disables =>
          /\ ClockLow /\ ~bitbang.irq_off /\ bitbang'.irq_off
          /\ bitbang.rises = bitbang.enables
    /\ RiseStep =>
          /\ bitbang.irq_off /\ bitbang'.irq_off
          /\ bitbang.disables = bitbang.rises + 1
    /\ bitbang'.falls > bitbang.falls =>
          /\ bitbang.irq_off /\ bitbang'.irq_off
          /\ hx71x[bitbang.oid].sclk = 1 /\ hx71x'[bitbang.oid].sclk = 0
          /\ bitbang.rises = bitbang.falls + 1
    /\ bitbang'.enables > bitbang.enables =>
          /\ ClockLow /\ bitbang.irq_off /\ ~bitbang'.irq_off
          /\ bitbang.falls = bitbang.enables + 1

\* a timer event, and the two ways a read returns
C20_HandlerStep ==
    /\ (calls' # <<>> /\ calls'[1].call = "hx71x_event") =>
          ClockLow /\ ~bitbang.irq_off
    /\ ReadEndStep =>
          /\ ClockLow /\ ~bitbang.irq_off
          /\ \A oid \in Oids : hx71x'[oid].sclk = 0
          /\ ~bitbang'.irq_off
          /\ bitbang.disables = bitbang.enables
    /\ NotReadyStep =>
          /\ \A oid \in Oids : hx71x'[oid].sclk = 0
          /\ ~bitbang'.irq_off

C20_ClockHighOnlyMasked ==
    []C20_ClockHighMasked /\ [][C20_PulseStep /\ C20_HandlerStep]_vars

\* the timer event of the other device ran in the middle of a read, between
\* two of its pulses
C20_Witness ==
    /\ Handler = "hx71x_event"
    /\ bitbang.pc \in {"irq_disable", "sample"}
    /\ bitbang.rises > 0
    /\ HandlerOid # bitbang.oid
    /\ hx71x[HandlerOid].pending_flag = 1

(***************************************************************************)
(* C14: for a synchronized group of 1 to 4 chips of the bit-banged engine, *)
(* a cycle appends samples to the sink buffer if and only if the primary   *)
(* chip (index 0) was ready at the start of the cycle; a chip that becomes *)
(* ready in the middle of a cycle does not take part in it.                *)
(***************************************************************************)
GroupEndStep == group.pc = "cycle" /\ group'.pc = "idle"

\* the bytes handed to the host by the calls of a handler
RECURSIVE ReportedBytes(_)
ReportedBytes(cs) ==
    IF cs = <<>> THEN 0
    ELSE (IF Head(cs).call = "sensor_bulk_report" THEN Head(cs).n ELSE 0)
         + ReportedBytes(Tail(cs))

\* the samples the step added to the buffer, flushed ones included
GroupAppended ==
    (group'.sb.data_count + ReportedBytes(calls') - group.sb.data_count)
        \div BYTES_PER_SAMPLE

C14_GroupEndStep ==
    GroupEndStep =>
        /\ group.chip_count \in 1 .. 4
        /\ (GroupAppended > 0) <=> (0 \in group.ready)
        /\ 0 \in group.ready => GroupAppended = group.chip_count
        /\ \A i \in group.late \ group.ready :
              group'.dout[i] = 0 /\ group.dout[i] = 0

\* the ready set is fixed at the start of a cycle
C14_CycleStep ==
    (group.pc = "cycle" /\ group'.pc = "cycle") =>
        group'.ready = group.ready

Encode(v) ==
    LET w == IF v < 0 THEN v + 2^24 ELSE v
    IN  <<w % 256, (w \div 256) % 256, w \div 65536,
          IF v < 0 THEN 255 ELSE 0>>

\* the k-th group of 4 bytes of a byte sequence
Group4(data, k) == SubSeq(data, 4 * k - 3, 4 * k)

\* the int32_t a group of 4 bytes encodes, least significant byte first
Decode(bytes) ==
    u32_to_i32(<<bytes[4] * 256 + bytes[3], bytes[2] * 256 + bytes[1]>>)

\* the values each engine accepts
AdsAccepts(v) == v \in (-8388608) .. 8388607 /\ v # -1
HxAccepts(v) == v \in (-8388607) .. 8388607

\* a byte sequence made of whole samples only
WholeSamples(data) ==
    /\ Len(data) % BYTES_PER_SAMPLE = 0
    /\ \A i \in DOMAIN data : data[i] \in 0 .. 255
    /\ \A k \in 1 .. (Len(data) \div BYTES_PER_SAMPLE) :
          Encode(Decode(Group4(data, k))) = Group4(data, k)

SamplesOf(data) ==
    [k \in 1 .. (Len(data) \div BYTES_PER_SAMPLE) |-> Decode(Group4(data, k))]

\* the value the latest ready read received, as 24-bit two's complement
ReadValue ==
    IF IsAdsRead THEN TwosComplement24(ReadPattern)
    ELSE TwosComplement24(CallsTo("hx71x_clock_pulses")[1].val)

\* the bytes the buffer of the latest read held after the append
ReadBytes ==
    IF CallIdx("sensor_bulk_report") # {}
    THEN CallsTo("sensor_bulk_report")[1].data
    ELSE ReadSb.data

C21_WholeSamples ==
    /\ \A oid \in Oids :
          /\ ads1220[oid].sb.data_count % BYTES_PER_SAMPLE = 0
          /\ ads1220[oid].sb.data_count = Len(ads1220[oid].sb.data)
          /\ WholeSamples(ads1220[oid].sb.data)
          /\ \A k \in DOMAIN SamplesOf(ads1220[oid].sb.data) :
                AdsAccepts(SamplesOf(ads1220[oid].sb.data)[k])
          /\ hx71x[oid].sb.data_count % BYTES_PER_SAMPLE = 0
          /\ hx71x[oid].sb.data_count = Len(hx71x[oid].sb.data)
          /\ WholeSamples(hx71x[oid].sb.data)
          /\ \A k \in DOMAIN SamplesOf(hx71x[oid].sb.data) :
                HxAccepts(SamplesOf(hx71x[oid].sb.data)[k])
    /\ ReadAccepted =>
          /\ Len(ReadBytes) >= BYTES_PER_SAMPLE
          /\ Group4(ReadBytes, Len(ReadBytes) \div BYTES_PER_SAMPLE)
                = Encode(ReadValue)
          /\ Decode(Encode(ReadValue)) = ReadValue
    /\ \A i \in CallIdx("sensor_bulk_report") :
          /\ calls[i].n = Len(calls[i].data)
          /\ calls[i].n >= BYTES_PER_SAMPLE
          /\ WholeSamples(calls[i].data)

\* a read of the SPI engine accepted 0x800000 and its flush handed over
\* three complete samples: 1, 8388607 and -8388608
C21_Witness ==
    /\ IsAdsRead /\ ReadAccepted
    /\ ReadValue = -8388608
    /\ CallIdx("sensor_bulk_report") # {}
    /\ SamplesOf(ReadBytes) = <<1, 8388607, -8388608>>
    /\ ReadSb.data_count = 0

(***************************************************************************)
(* C22: no accepted sample is lost, duplicated or reordered on its way to  *)
(* the host.  Between one start command and the next, the batches flushed  *)
(* to the bulk-report sink followed by the bytes still in the buffer are   *)
(* the samples the device's reads accepted, each once and in acquisition   *)
(* order: an accepted read extends that stream by the encoding of its      *)
(* sample and notifies the attached endstop with the same value, and no    *)
(* other step changes the stream or notifies the endstop; in particular a  *)
(* stop command leaves the buffered bytes in place.                        *)
(***************************************************************************)
\* the bytes the calls of a handler handed to the host for a device
RECURSIVE Flushed(_, _)
Flushed(cs, oid) ==
    IF cs = <<>> THEN <<>>
    ELSE (IF Head(cs).call = "sensor_bulk_report" /\ Head(cs).oid = oid
          THEN Head(cs).data ELSE <<>>)
         \o Flushed(Tail(cs), oid)

\* the values the calls of a handler notified the endstop with
RECURSIVE Notified(_, _)
Notified(cs, oid) ==
    IF cs = <<>> THEN <<>>
    ELSE (IF Head(cs).call = "load_cell_endstop_report_sample"
             /\ Head(cs).oid = oid
          THEN <<Head(cs).val>> ELSE <<>>)
         \o Notified(Tail(cs), oid)

\* the step is an accepted read of the device / a start command for it
AcceptedStep(oid) == ReadAccepted' /\ HandlerOid' = oid
StartStep(oid) ==
    /\ calls' # <<>>
    /\ calls'[1].call \in {"command_query_ads1220", "command_query_hx71x"}
    /\ calls'[1].oid = oid
    /\ calls'[1].time # Zero32

\* sb, sb_next: the buffer of the device before and after the step; lce:
\* the endstop attached to it
C22_StreamStep(oid, sb, sb_next, lce) ==
    IF AcceptedStep(oid)
    THEN /\ Flushed(calls', oid) \o sb_next.data
               = sb.data \o Encode(ReadValue')
         /\ Notified(calls', oid)
               = IF lce # 0 THEN <<ReadValue'>> ELSE <<>>
    ELSE IF StartStep(oid)
    THEN /\ sb_next.data = <<>>
         /\ Flushed(calls', oid) = <<>>
         /\ Notified(calls', oid) = <<>>
    ELSE /\ sb_next.data = sb.data
         /\ Flushed(calls', oid) = <<>>
         /\ Notified(calls', oid) = <<>>

C22_Step ==
    \A oid \in Oids :
        /\ oids[oid] = "ads1220" =>
              C22_StreamStep(oid, ads1220[oid].sb, ads1220'[oid].sb,
                             ads1220[oid].lce)
        /\ oids[oid] = "hx71x" =>
              C22_StreamStep(oid, hx71x[oid].sb, hx71x'[oid].sb,
                             hx71x[oid].lce)

C22_NoSampleLost == [][C22_Step]_vars

\* a read of the bit-banged engine with an endstop attached accepted
\* 0x7FFFFF, notified the endstop with it and handed the host the three
\* samples accepted since the start command, in their order
C22_Witness ==
    /\ IsHxRead /\ ReadAccepted /\ ReadLce # 0
    /\ ReadValue = 8388607
    /\ SamplesOf(Flushed(calls, HandlerOid)) = <<1, 1, 8388607>>
    /\ Notified(calls, HandlerOid) = <<8388607>>
    /\ ReadSb.data = <<>>

====
